---- MODULE Spec2Model ----
(***************************************************************************)
(* Settings model of the ElegooNeptuneThumbnails plugin: the Settings      *)
(* entity and SettingsManager of tools/settings.py and the slots of        *)
(* SettingsTranslator in tools/gui.py.                                     *)
(*                                                                         *)
(* Python values are tagged records, so that a value of the wrong type    *)
(* read from the stored blob can sit in an entity field, as it can in      *)
(* Python.  The stored blob is JSON text, kept as its sequence of lexical  *)
(* tokens: json.dumps produces the tokens and json.loads parses them.      *)
(***************************************************************************)
EXTENDS Integers, Sequences, FiniteSets, TLC

VARIABLES
    settings,          \* SettingsManager._settings: PyNone or a Settings object
    meta,              \* metadata entry SETTINGS_KEY of the global container stack
    prefs,             \* preference STATISTICS_ID_KEY of the application
    printer_id,        \* activeMachine.definition.getId()
    popup,             \* SettingsTranslator._popup is set
    selected_corner,   \* SettingsTranslator._selected_corner
    ret,               \* what the last accessor call returned: PyNone before any,
                       \* and a list of option ids from get_corner_option_ids
    last,              \* the last call: its name, re-renders fired, exception raised,
                       \* whether it left the entity different from before, and the
                       \* persisted fields render_thumbnail found (PyNone if not called)
    saved,             \* the persisted fields of the entity at the last save()
    edits              \* number of mutation slot calls so far

vars == <<settings, meta, prefs, printer_id, popup, selected_corner, ret, last, saved, edits>>

----------------------------------------------------------------------------
(* Python values *)

PyNone == [type |-> "NoneType"]
PyBool(b) == [type |-> "bool", b |-> b]
PyInt(n) == [type |-> "int", n |-> n]
PyStr(s) == [type |-> "str", s |-> s]
PyList(items) == [type |-> "list", items |-> items]
\* a dict keeps its insertion order: a sequence of [key, val] with distinct keys
PyDict(items) == [type |-> "dict", items |-> items]
\* a str holding JSON text, as its tokens
JsonText(toks) == [type |-> "str", toks |-> toks]

NoExc == "none"

\* bool(v): None, False, 0 and the empty str, list and dict are false; an
\* object of a class without __bool__ or __len__ (Settings) is true
Truthy(v) ==
    CASE v.type = "NoneType" -> FALSE
      [] v.type = "bool" -> v.b
      [] v.type = "int" -> v.n # 0
      [] v.type = "str" -> IF "toks" \in DOMAIN v THEN v.toks # <<>> ELSE v.s # ""
      [] v.type \in {"list", "dict"} -> v.items # <<>>
      [] OTHER -> TRUE

IsNumber(v) == v.type \in {"bool", "int"}

\* bool is a subclass of int: True is 1 and False is 0
Num(v) == IF v.type = "bool" THEN (IF v.b THEN 1 ELSE 0) ELSE v.n

\* a == b where b is a bool or an int (a slot argument)
PyEq(a, b) == IF IsNumber(a) /\ IsNumber(b) THEN Num(a) = Num(b) ELSE a = b

\* list[i]: a valid index is in [-len, len), a negative one counts from the end
IndexOk(items, i) == -Len(items) <= i /\ i < Len(items)
IndexPos(items, i) == IF i < 0 THEN i + Len(items) + 1 ELSE i + 1

HasKey(d, k) == \E i \in 1..Len(d.items) : d.items[i].key = k
DictGet(d, k) == d.items[CHOOSE i \in 1..Len(d.items) : d.items[i].key = k].val
\* d[k] = v: a key already present keeps its place
DictSet(items, k, v) ==
    IF \E i \in 1..Len(items) : items[i].key = k
    THEN [i \in 1..Len(items) |-> IF items[i].key = k THEN [key |-> k, val |-> v] ELSE items[i]]
    ELSE Append(items, [key |-> k, val |-> v])

----------------------------------------------------------------------------
(* json.dumps and json.loads, on tokens *)

Tok(k) == [k |-> k]
TokInt(n) == [k |-> "int", n |-> n]
TokStr(s) == [k |-> "str", s |-> s]

RECURSIVE json_dumps(_), DumpElems(_, _), DumpMembers(_, _)
DumpElems(items, i) ==
    IF i > Len(items) THEN <<>>
    ELSE (IF i > 1 THEN <<Tok(",")>> ELSE <<>>) \o json_dumps(items[i]) \o DumpElems(items, i + 1)
DumpMembers(items, i) ==
    IF i > Len(items) THEN <<>>
    ELSE (IF i > 1 THEN <<Tok(",")>> ELSE <<>>)
         \o <<TokStr(items[i].key), Tok(":")>> \o json_dumps(items[i].val)
         \o DumpMembers(items, i + 1)
json_dumps(v) ==
    CASE v.type = "NoneType" -> <<Tok("null")>>
      [] v.type = "bool" -> <<Tok(IF v.b THEN "true" ELSE "false")>>
      [] v.type = "int" -> <<TokInt(v.n)>>
      [] v.type = "str" -> <<TokStr(v.s)>>
      [] v.type = "list" -> <<Tok("[")>> \o DumpElems(v.items, 1) \o <<Tok("]")>>
      [] v.type = "dict" -> <<Tok("{")>> \o DumpMembers(v.items, 1) \o <<Tok("}")>>

ParseFail == [ok |-> FALSE]
Parsed(v, n) == [ok |-> TRUE, val |-> v, next |-> n]

RECURSIVE ParseValue(_, _), ParseElems(_, _, _), ParseMembers(_, _, _)
ParseElems(t, i, acc) ==
    LET r == ParseValue(t, i) IN
    IF ~r.ok \/ r.next > Len(t) THEN ParseFail
    ELSE IF t[r.next].k = "," THEN ParseElems(t, r.next + 1, Append(acc, r.val))
    ELSE IF t[r.next].k = "]" THEN Parsed(PyList(Append(acc, r.val)), r.next + 1)
    ELSE ParseFail
ParseMembers(t, i, acc) ==
    IF i + 1 > Len(t) \/ t[i].k # "str" \/ t[i + 1].k # ":" THEN ParseFail
    ELSE LET r == ParseValue(t, i + 2) IN
         IF ~r.ok \/ r.next > Len(t) THEN ParseFail
         ELSE IF t[r.next].k = "," THEN ParseMembers(t, r.next + 1, DictSet(acc, t[i].s, r.val))
         ELSE IF t[r.next].k = "}" THEN Parsed(PyDict(DictSet(acc, t[i].s, r.val)), r.next + 1)
         ELSE ParseFail
ParseValue(t, i) ==
    IF i > Len(t) THEN ParseFail
    ELSE CASE t[i].k = "null" -> Parsed(PyNone, i + 1)
           [] t[i].k = "true" -> Parsed(PyBool(TRUE), i + 1)
           [] t[i].k = "false" -> Parsed(PyBool(FALSE), i + 1)
           [] t[i].k = "int" -> Parsed(PyInt(t[i].n), i + 1)
           [] t[i].k = "str" -> Parsed(PyStr(t[i].s), i + 1)
           [] t[i].k = "[" -> IF i + 1 <= Len(t) /\ t[i + 1].k = "]"
                              THEN Parsed(PyList(<<>>), i + 2)
                              ELSE ParseElems(t, i + 1, <<>>)
           [] t[i].k = "{" -> IF i + 1 <= Len(t) /\ t[i + 1].k = "}"
                              THEN Parsed(PyDict(<<>>), i + 2)
                              ELSE ParseMembers(t, i + 1, <<>>)
           [] OTHER -> ParseFail

\* json.loads(text): the whole text is one value, or JSONDecodeError
json_loads(text) ==
    LET r == ParseValue(text.toks, 1) IN
    IF r.ok /\ r.next = Len(text.toks) + 1
    THEN [exc |-> NoExc, val |-> r.val]
    ELSE [exc |-> "JSONDecodeError"]

----------------------------------------------------------------------------
(* class Settings *)

\* list(Settings.OPTIONS.keys())
OptionIds == <<"nothing", "includeTimeEstimate", "includeFilamentGramsEstimate",
               "includeLayerHeight", "includeModelHeight", "includeFilamentMetersEstimate">>
\* list(Settings.PRINTER_MODELS.keys())
PrinterModelIds == <<"elegoo_neptune_2", "elegoo_neptune_2_s", "elegoo_neptune_3_pro",
                     "elegoo_neptune_3_plus", "elegoo_neptune_3_max">>

Ints(seq) == [i \in 1..Len(seq) |-> PyInt(seq[i])]

\* Settings.__init__
Settings(statistics_id, plugin_json) ==
    [type |-> "Settings",
     statistics_id |-> statistics_id,
     plugin_json |-> plugin_json,
     thumbnails_enabled |-> PyBool(TRUE),
     printer_model |-> PyInt(2),
     corner_options |-> PyList(Ints(<<0, 0, 3, 1>>)),
     statistics_enabled |-> PyBool(TRUE),
     use_current_model |-> PyBool(FALSE)]

\* seq[i] of a list of str, i any Python value
StrListIndex(seq, i) ==
    IF ~IsNumber(i) THEN [exc |-> "TypeError"]
    ELSE IF ~IndexOk(seq, Num(i)) THEN [exc |-> "IndexError"]
    ELSE [exc |-> NoExc, val |-> PyStr(seq[IndexPos(seq, Num(i))])]

Settings_get_printer_model_id(s) == StrListIndex(PrinterModelIds, s.printer_model)

\* [option_ids[i] for i in self.corner_options if i > 0], from element k on
RECURSIVE SelectedOptions(_, _, _)
SelectedOptions(items, k, acc) ==
    IF k > Len(items) THEN [exc |-> NoExc, val |-> acc]
    ELSE IF ~IsNumber(items[k]) THEN [exc |-> "TypeError"]
    ELSE IF Num(items[k]) > 0
         THEN LET r == StrListIndex(OptionIds, items[k]) IN
              IF r.exc # NoExc THEN [exc |-> r.exc]
              ELSE SelectedOptions(items, k + 1, Append(acc, r.val.s))
         ELSE SelectedOptions(items, k + 1, acc)

\* no removal of duplicates: what EffectiveOptionSetComputed must notice
FromKeysKeepsAll(seq, k, acc) == seq

\* list(dict.fromkeys(seq)): each element once, where it first occurs
RECURSIVE FromKeys(_, _, _)
FromKeys(seq, k, acc) ==
    IF k > Len(seq) THEN acc
    ELSE IF \E j \in 1..Len(acc) : acc[j] = seq[k] THEN FromKeys(seq, k + 1, acc)
    ELSE FromKeys(seq, k + 1, Append(acc, seq[k]))

Settings_get_corner_option_ids(s) ==
    IF s.corner_options.type # "list" THEN [exc |-> "TypeError"]
    ELSE LET sel == SelectedOptions(s.corner_options.items, 1, <<>>) IN
         IF sel.exc # NoExc THEN [exc |-> sel.exc]
         ELSE LET selected_options == FromKeys(sel.val, 1, <<>>) IN
              [exc |-> NoExc,
               val |-> IF Truthy(s.thumbnails_enabled)
                       THEN <<"includeThumbnail">> \o selected_options
                       ELSE selected_options]

Settings_is_old_thumbnail(s) ==
    LET r == StrListIndex(PrinterModelIds, s.printer_model) IN
    IF r.exc # NoExc THEN [exc |-> r.exc]
    ELSE [exc |-> NoExc, val |-> PyBool(r.val.s \in {"elegoo_neptune_2", "elegoo_neptune_2_s"})]

\* the keys of the stored object, in the order load_json reads them
PersistedKeys == <<"thumbnails_enabled", "printer_model", "corner_options",
                   "statistics_enabled", "use_current_model">>

\* Settings.load_json: the assignments from key k on; a missing key raises
\* KeyError and leaves the earlier assignments in place
RECURSIVE LoadKeys(_, _, _)
LoadKeys(s, data, k) ==
    IF k > Len(PersistedKeys) THEN [settings |-> s, exc |-> NoExc]
    ELSE IF ~HasKey(data, PersistedKeys[k]) THEN [settings |-> s, exc |-> "KeyError"]
    ELSE LoadKeys([s EXCEPT ![PersistedKeys[k]] = DictGet(data, PersistedKeys[k])], data, k + 1)

\* a load_json that lacks the assignment of use_current_model: what
\* DiscardRestoresSaved must notice
load_json_without_last_key(s, data) ==
    IF data.type # "dict" THEN [settings |-> s, exc |-> "TypeError"]
    ELSE LET r == LoadKeys(s, data, 1) IN
         IF r.exc # NoExc THEN r
         ELSE [r EXCEPT !.settings.use_current_model = s.use_current_model]

\* data["..."] of a value that is no dict raises TypeError
Settings_load_json(s, data) ==
    IF data.type # "dict" THEN [settings |-> s, exc |-> "TypeError"]
    ELSE LoadKeys(s, data, 1)

\* a to_json that writes use_current_model under both boolean keys after
\* thumbnails_enabled: what SaveLoadRoundTrip must notice
to_json_wrong_value(s) ==
    PyDict(<<[key |-> "thumbnails_enabled", val |-> s.thumbnails_enabled],
             [key |-> "printer_model", val |-> s.printer_model],
             [key |-> "corner_options", val |-> s.corner_options],
             [key |-> "statistics_enabled", val |-> s.use_current_model],
             [key |-> "use_current_model", val |-> s.use_current_model]>>)

\* a to_json that also writes the statistics id: what SaveContract must notice
to_json_with_statistics_id(s) ==
    PyDict(<<[key |-> "thumbnails_enabled", val |-> s.thumbnails_enabled],
             [key |-> "printer_model", val |-> s.printer_model],
             [key |-> "corner_options", val |-> s.corner_options],
             [key |-> "statistics_enabled", val |-> s.statistics_enabled],
             [key |-> "use_current_model", val |-> s.use_current_model],
             [key |-> "statistics_id", val |-> s.statistics_id]>>)

Settings_to_json(s) ==
    PyDict(<<[key |-> "thumbnails_enabled", val |-> s.thumbnails_enabled],
             [key |-> "printer_model", val |-> s.printer_model],
             [key |-> "corner_options", val |-> s.corner_options],
             [key |-> "statistics_enabled", val |-> s.statistics_enabled],
             [key |-> "use_current_model", val |-> s.use_current_model]>>)

----------------------------------------------------------------------------
(* class SettingsManager *)

\* the content of plugin.json, opaque here
PluginJson == PyStr("plugin.json")

\* an id generated without looking at the preferences: what
\* StableInstallationId must notice
generate_statistics_id_always(p, u) == [prefs |-> PyStr(u), id |-> PyStr(u)]

\* SettingsManager._generate_statistics_id; u is the value of uuid.uuid4()
generate_statistics_id(p, u) ==
    IF ~Truthy(p)
    THEN [prefs |-> PyStr(u), id |-> PyStr(u)]
    ELSE [prefs |-> p, id |-> p]

\* the lookup without the spelling elegoo_neptune_3plus: what FirstRunDefaults
\* must notice
DetectPrinterModelOneSpelling(pid, pm) ==
    LET m0 == IF pid \in {"elegoo_neptune_2"} THEN PyInt(0) ELSE pm
        m1 == IF pid \in {"elegoo_neptune_2s", "elegoo_neptune_2_s"} THEN PyInt(1) ELSE m0
        m2 == IF pid \in {"elegoo_neptune_3pro", "elegoo_neptune_3_pro"} THEN PyInt(2) ELSE m1
        m3 == IF pid \in {"elegoo_neptune_3_plus"} THEN PyInt(3) ELSE m2
        m4 == IF pid \in {"elegoo_neptune_3max", "elegoo_neptune_3_max"} THEN PyInt(4) ELSE m3
    IN m4

\* the printer model that the chain of ifs on printer_id leaves, starting from pm
DetectPrinterModel(pid, pm) ==
    LET m0 == IF pid \in {"elegoo_neptune_2"} THEN PyInt(0) ELSE pm
        m1 == IF pid \in {"elegoo_neptune_2s", "elegoo_neptune_2_s"} THEN PyInt(1) ELSE m0
        m2 == IF pid \in {"elegoo_neptune_3pro", "elegoo_neptune_3_pro"} THEN PyInt(2) ELSE m1
        m3 == IF pid \in {"elegoo_neptune_3plus", "elegoo_neptune_3_plus"} THEN PyInt(3) ELSE m2
        m4 == IF pid \in {"elegoo_neptune_3max", "elegoo_neptune_3_max"} THEN PyInt(4) ELSE m3
    IN m4

\* defaults with the model height (index 4) in the third corner: what
\* OutOfBoxLayout must notice
DefaultSettingsModelHeight(s, pid) ==
    [s EXCEPT !.thumbnails_enabled = PyBool(TRUE),
              !.printer_model = DetectPrinterModel(pid, PyInt(2)),
              !.corner_options = PyList(Ints(<<0, 0, 4, 1>>)),
              !.statistics_enabled = PyBool(TRUE),
              !.use_current_model = PyBool(FALSE)]

\* the else branch of load: the default settings, then the detected printer
DefaultSettings(s, pid) ==
    [s EXCEPT !.thumbnails_enabled = PyBool(TRUE),
              !.printer_model = DetectPrinterModel(pid, PyInt(2)),
              !.corner_options = PyList(Ints(<<0, 0, 3, 1>>)),
              !.statistics_enabled = PyBool(TRUE),
              !.use_current_model = PyBool(FALSE)]

\* SettingsManager.load on _settings s, stored blob m, preference p, printer pid
SettingsManager_load(s, m, p, pid, u) ==
    LET gen == IF ~Truthy(s) THEN generate_statistics_id(p, u) ELSE [prefs |-> p]
        s1 == IF ~Truthy(s) THEN Settings(gen.id, PluginJson) ELSE s
    IN IF Truthy(m)
       THEN LET data == json_loads(m) IN
            IF data.exc # NoExc
            THEN [settings |-> s1, prefs |-> gen.prefs, exc |-> data.exc]
            ELSE LET r == Settings_load_json(s1, data.val) IN
                 [settings |-> r.settings, prefs |-> gen.prefs, exc |-> r.exc]
       ELSE [settings |-> DefaultSettings(s1, pid), prefs |-> gen.prefs, exc |-> NoExc]

SettingsManager_get_settings(s, m, p, pid, u) ==
    IF ~Truthy(s) THEN SettingsManager_load(s, m, p, pid, u)
    ELSE [settings |-> s, prefs |-> p, exc |-> NoExc]

SettingsManager_save(s, m, p, pid, u) ==
    LET l == IF ~Truthy(s) THEN SettingsManager_load(s, m, p, pid, u)
             ELSE [settings |-> s, prefs |-> p, exc |-> NoExc]
    IN IF l.exc # NoExc
       THEN [settings |-> l.settings, prefs |-> l.prefs, meta |-> m, exc |-> l.exc]
       ELSE [settings |-> l.settings, prefs |-> l.prefs,
             meta |-> JsonText(json_dumps(Settings_to_json(l.settings))), exc |-> NoExc]

----------------------------------------------------------------------------
(* bounds of the model *)

\* mutation slots are called at most MaxEdits times
MaxEdits == 2

\* slot arguments.  Corners: below -4 and above 3 no index of a 4-list, -4 and
\* -1 count from the end, 0 and 3 are the first and the last slot.  Options:
\* a negative one, "nothing", one of the catalog, and the catalog's size.
\* Models: a negative one, the first and the last of the catalog, its size.
CornerArgs == {-5, -4, -1, 0, 3, 4}
OptionArgs == {-1, 0, 2, 6}
ModelArgs == {-1, 0, 4, 5}

\* values of uuid.uuid4()
FreshIds == {"uuid-a", "uuid-b"}
\* uuid.uuid4() is called only to create the entity with no id in the preferences
Uuid4(s, p) == IF ~Truthy(s) /\ ~Truthy(p) THEN FreshIds ELSE {"uuid-a"}
\* an id generated by an earlier run
InstalledId == PyStr("uuid-installed")

\* printer definitions of the active machine: two in the lookup table, one not
PrinterIds == {"elegoo_neptune_2s", "elegoo_neptune_3_max", "elegoo_neptune_4"}

----------------------------------------------------------------------------
(* blobs the store may hold when the process starts *)

BlobOf(te, pm, co, se, ucm) ==
    PyDict(<<[key |-> "thumbnails_enabled", val |-> te],
             [key |-> "printer_model", val |-> pm],
             [key |-> "corner_options", val |-> co],
             [key |-> "statistics_enabled", val |-> se],
             [key |-> "use_current_model", val |-> ucm]>>)

\* written by save() in an earlier run
EarlierBlob ==
    JsonText(json_dumps(BlobOf(PyBool(FALSE), PyInt(4), PyList(Ints(<<1, 2, 2, 5>>)),
                               PyBool(FALSE), PyBool(TRUE))))
\* text cut short: not parseable
TruncatedBlob == JsonText(SubSeq(EarlierBlob.toks, 1, Len(EarlierBlob.toks) - 1))
\* an object without the key use_current_model
MissingKeyBlob ==
    JsonText(json_dumps(PyDict(
        <<[key |-> "thumbnails_enabled", val |-> PyBool(FALSE)],
          [key |-> "printer_model", val |-> PyInt(0)],
          [key |-> "corner_options", val |-> PyList(Ints(<<5, 0, 0, 0>>))],
          [key |-> "statistics_enabled", val |-> PyBool(FALSE)]>>)))
\* printer_model holds a str
WrongTypeBlob ==
    JsonText(json_dumps(BlobOf(PyBool(TRUE), PyStr("elegoo_neptune_3_max"),
                               PyList(Ints(<<0, 0, 3, 1>>)), PyBool(TRUE), PyBool(FALSE))))

MalformedBlobs == {TruncatedBlob, MissingKeyBlob, WrongTypeBlob}
InitBlobs == {PyNone, EarlierBlob} \cup MalformedBlobs

----------------------------------------------------------------------------
(* the state *)

Call(op, fired, exc, changed) ==
    [op |-> op, fired |-> fired, exc |-> exc, changed |-> changed, seen |-> PyNone]

\* the five persisted fields of entity s
Persisted(s) ==
    [thumbnails_enabled |-> s.thumbnails_enabled,
     printer_model |-> s.printer_model,
     corner_options |-> s.corner_options,
     statistics_enabled |-> s.statistics_enabled,
     use_current_model |-> s.use_current_model]

Init ==
    /\ settings = PyNone
    \* a first run, or a run after one that saved (and so generated the id)
    /\ \/ meta = PyNone /\ prefs \in {PyNone, InstalledId} /\ printer_id \in PrinterIds
       \/ meta \in InitBlobs \ {PyNone} /\ prefs = InstalledId /\ printer_id = "elegoo_neptune_2s"
    /\ popup = FALSE
    /\ selected_corner = -1
    /\ ret = PyNone
    /\ last = Call("init", 0, NoExc, FALSE)
    /\ saved = PyNone
    /\ edits = 0

----------------------------------------------------------------------------
(* SettingsManager's class methods, called by the plugin *)

get_settings ==
    \E u \in Uuid4(settings, prefs) :
        LET r == SettingsManager_get_settings(settings, meta, prefs, printer_id, u) IN
        /\ settings' = r.settings
        /\ prefs' = r.prefs
        /\ last' = Call("get_settings", 0, r.exc, r.settings # settings)
        /\ UNCHANGED <<meta, printer_id, popup, selected_corner, ret, saved, edits>>

\* a load() that stores the defaults it applied: what StoreChangesOnlyOnSave
\* must notice
load_persisting_defaults ==
    \E u \in Uuid4(settings, prefs) :
        LET r == SettingsManager_load(settings, meta, prefs, printer_id, u) IN
        /\ settings' = r.settings
        /\ prefs' = r.prefs
        /\ meta' = IF Truthy(meta) THEN meta
                   ELSE JsonText(json_dumps(Settings_to_json(r.settings)))
        /\ last' = Call("load", 0, r.exc, r.settings # settings)
        /\ UNCHANGED <<printer_id, popup, selected_corner, ret, saved, edits>>

load ==
    \E u \in Uuid4(settings, prefs) :
        LET r == SettingsManager_load(settings, meta, prefs, printer_id, u) IN
        /\ settings' = r.settings
        /\ prefs' = r.prefs
        /\ last' = Call("load", 0, r.exc, r.settings # settings)
        /\ UNCHANGED <<meta, printer_id, popup, selected_corner, ret, saved, edits>>

save ==
    \E u \in Uuid4(settings, prefs) :
        LET r == SettingsManager_save(settings, meta, prefs, printer_id, u) IN
        /\ settings' = r.settings
        /\ prefs' = r.prefs
        /\ meta' = r.meta
        /\ saved' = IF r.exc = NoExc THEN Persisted(r.settings) ELSE saved
        /\ last' = Call("save", 0, r.exc, r.settings # settings)
        /\ UNCHANGED <<printer_id, popup, selected_corner, ret, edits>>

----------------------------------------------------------------------------
(* SettingsTranslator's slots *)

\* the comparison taken after the write, the field already holding the
\* argument: what ChangeNotificationExact must notice
UpdatedAfterWrite(old, new) == ~PyEq(new, new)

\* updated: bool = <field> != <argument>
Updated(old, new) == ~PyEq(old, new)

\* render_thumbnail is called once if updated
Renders(updated) == IF updated THEN 1 ELSE 0

\* render_thumbnail called ahead of the assignment, the entity still as it was
\* before: what WriteBeforeNotify must notice
NotifyBeforeWrite(call, before, after) ==
    IF call.fired > 0 THEN [call EXCEPT !.seen = Persisted(before)] ELSE call

\* if updated: self.render_thumbnail(), the statement after the assignment:
\* the preview is generated from the entity as the assignment left it
Notify(call, before, after) ==
    IF call.fired > 0 THEN [call EXCEPT !.seen = Persisted(after)] ELSE call

\* the body shared by the slots that compare field f with the argument, write
\* it and re-render on a change; every line starts with
\* SettingsManager.get_settings()
SetField(op, f, value) ==
    \E u \in Uuid4(settings, prefs) :
        LET g == SettingsManager_get_settings(settings, meta, prefs, printer_id, u) IN
        /\ prefs' = g.prefs
        /\ IF g.exc # NoExc
           THEN /\ settings' = g.settings
                /\ last' = Call(op, 0, g.exc, g.settings # settings)
           ELSE LET updated == Updated(g.settings[f], value)
                    s1 == [g.settings EXCEPT ![f] = value]
                IN /\ settings' = s1
                   /\ last' = Notify(Call(op, Renders(updated), NoExc, s1 # settings),
                                     g.settings, s1)

set_thumbnails_enabled(enabled) ==
    /\ edits < MaxEdits
    /\ SetField("set_thumbnails_enabled", "thumbnails_enabled", PyBool(enabled))
    /\ edits' = edits + 1
    /\ UNCHANGED <<meta, printer_id, popup, selected_corner, ret, saved>>

select_printer_model(model) ==
    /\ edits < MaxEdits
    /\ SetField("select_printer_model", "printer_model", PyInt(model))
    /\ edits' = edits + 1
    /\ UNCHANGED <<meta, printer_id, popup, selected_corner, ret, saved>>

set_use_current_model(enabled) ==
    /\ edits < MaxEdits
    /\ SetField("set_use_current_model", "use_current_model", PyBool(enabled))
    /\ edits' = edits + 1
    /\ UNCHANGED <<meta, printer_id, popup, selected_corner, ret, saved>>

\* corner_options[corner] of entity s: the value, or the exception
CornerRead(s, corner) ==
    IF s.corner_options.type # "list" THEN [exc |-> "TypeError"]
    ELSE IF ~IndexOk(s.corner_options.items, corner) THEN [exc |-> "IndexError"]
    ELSE [exc |-> NoExc,
          val |-> s.corner_options.items[IndexPos(s.corner_options.items, corner)]]

\* corner_options.insert(corner, option): what FourCornerSlots must notice
CornerWriteInsert(s, corner, option) ==
    LET items == s.corner_options.items
        pos == IndexPos(items, corner)
    IN [s EXCEPT !.corner_options.items =
           SubSeq(items, 1, pos - 1) \o <<PyInt(option)>> \o SubSeq(items, pos, Len(items))]

\* corner_options = [option] * 4: what MutationFrame must notice
CornerWriteEverySlot(s, corner, option) ==
    [s EXCEPT !.corner_options.items = [i \in 1..Len(s.corner_options.items) |-> PyInt(option)]]

\* corner_options[corner] = option, in place
CornerWrite(s, corner, option) ==
    [s EXCEPT !.corner_options.items[IndexPos(s.corner_options.items, corner)] = PyInt(option)]

set_corner_option(corner, option) ==
    /\ edits < MaxEdits
    /\ \E u \in Uuid4(settings, prefs) :
        LET g == SettingsManager_get_settings(settings, meta, prefs, printer_id, u)
            old == CornerRead(g.settings, corner)
        IN
        /\ prefs' = g.prefs
        /\ IF g.exc # NoExc
           THEN /\ settings' = g.settings
                /\ last' = Call("set_corner_option", 0, g.exc, g.settings # settings)
           ELSE IF old.exc # NoExc
           THEN /\ settings' = g.settings
                /\ last' = Call("set_corner_option", 0, old.exc, g.settings # settings)
           ELSE LET updated == Updated(old.val, PyInt(option))
                    s1 == CornerWrite(g.settings, corner, option)
                IN /\ settings' = s1
                   /\ last' = Notify(Call("set_corner_option", Renders(updated), NoExc,
                                          s1 # settings), g.settings, s1)
    /\ edits' = edits + 1
    /\ UNCHANGED <<meta, printer_id, popup, selected_corner, ret, saved>>

\* the slot written like its neighbours, comparing and re-rendering: what
\* StatisticsNeverNotifies must notice
set_statistics_enabled_notifying(enabled) ==
    /\ edits < MaxEdits
    /\ SetField("set_statistics_enabled", "statistics_enabled", PyBool(enabled))
    /\ edits' = edits + 1
    /\ UNCHANGED <<meta, printer_id, popup, selected_corner, ret, saved>>

\* writes without comparing and never re-renders
set_statistics_enabled(enabled) ==
    /\ edits < MaxEdits
    /\ \E u \in Uuid4(settings, prefs) :
        LET g == SettingsManager_get_settings(settings, meta, prefs, printer_id, u)
            s1 == IF g.exc # NoExc THEN g.settings
                  ELSE [g.settings EXCEPT !.statistics_enabled = PyBool(enabled)]
        IN /\ prefs' = g.prefs
           /\ settings' = s1
           /\ last' = Call("set_statistics_enabled", 0, g.exc, s1 # settings)
    /\ edits' = edits + 1
    /\ UNCHANGED <<meta, printer_id, popup, selected_corner, ret, saved>>

\* the test inverted, load() when the popup opens: what EditSessionProtocol
\* must notice
visibility_changed_on_open(visible) ==
    IF visible
    THEN \E u \in Uuid4(settings, prefs) :
            LET r == SettingsManager_load(settings, meta, prefs, printer_id, u) IN
            /\ settings' = r.settings
            /\ prefs' = r.prefs
            /\ last' = Call("visibility_changed", 0, r.exc, r.settings # settings)
            /\ UNCHANGED <<meta, printer_id, popup, selected_corner, ret, saved, edits>>
    ELSE /\ last' = Call("visibility_changed", 0, NoExc, FALSE)
         /\ UNCHANGED <<settings, meta, prefs, printer_id, popup, selected_corner, ret,
                        saved, edits>>

\* popup open/close: closing discards
visibility_changed(visible) ==
    IF ~visible
    THEN \E u \in Uuid4(settings, prefs) :
            LET r == SettingsManager_load(settings, meta, prefs, printer_id, u) IN
            /\ settings' = r.settings
            /\ prefs' = r.prefs
            /\ last' = Call("visibility_changed", 0, r.exc, r.settings # settings)
            /\ UNCHANGED <<meta, printer_id, popup, selected_corner, ret, saved, edits>>
    ELSE /\ last' = Call("visibility_changed", 0, NoExc, FALSE)
         /\ UNCHANGED <<settings, meta, prefs, printer_id, popup, selected_corner, ret,
                        saved, edits>>

\* the save button: SettingsManager.save()
SettingsTranslator_save ==
    \E u \in Uuid4(settings, prefs) :
        LET r == SettingsManager_save(settings, meta, prefs, printer_id, u) IN
        /\ settings' = r.settings
        /\ prefs' = r.prefs
        /\ meta' = r.meta
        /\ saved' = IF r.exc = NoExc THEN Persisted(r.settings) ELSE saved
        /\ last' = Call("SettingsTranslator_save", 0, r.exc, r.settings # settings)
        /\ UNCHANGED <<printer_id, popup, selected_corner, ret, edits>>

Next ==
    \/ get_settings
    \/ load
    \/ save
    \/ \E enabled \in BOOLEAN : set_thumbnails_enabled(enabled)
    \/ \E model \in ModelArgs : select_printer_model(model)
    \/ \E corner \in CornerArgs, option \in OptionArgs : set_corner_option(corner, option)
    \/ \E enabled \in BOOLEAN : set_statistics_enabled(enabled)
    \/ \E enabled \in BOOLEAN : set_use_current_model(enabled)

Spec == Init /\ [][Next]_vars

----------------------------------------------------------------------------
(* an edit session: the slots of the popup, its opening and closing, its save
   button, and the manager's methods the plugin calls *)

NextSession ==
    \/ Next
    \/ \E visible \in BOOLEAN : visibility_changed(visible)
    \/ SettingsTranslator_save

\* a session starts on a first run (a printer of the lookup table or another
\* one), on a run after one that saved, or on a blob that lacks a key
InitSession ==
    /\ settings = PyNone
    /\ prefs = InstalledId
    /\ \/ meta = PyNone /\ printer_id \in {"elegoo_neptune_3_max", "elegoo_neptune_4"}
       \/ meta \in {EarlierBlob, MissingKeyBlob} /\ printer_id = "elegoo_neptune_2s"
    /\ popup = FALSE
    /\ selected_corner = -1
    /\ ret = PyNone
    /\ last = Call("init", 0, NoExc, FALSE)
    /\ saved = PyNone
    /\ edits = 0

SpecSession == InitSession /\ [][NextSession]_vars

----------------------------------------------------------------------------
(* save() and then load() in a process started afresh, from every valid entity *)

\* the process ends and a new one starts: the class attribute _settings is
\* None again, the translator is constructed anew; the stores keep their content
restart ==
    /\ settings' = PyNone
    /\ popup' = FALSE
    /\ selected_corner' = -1
    /\ ret' = PyNone
    /\ last' = Call("restart", 0, NoExc, settings # PyNone)
    /\ UNCHANGED <<meta, prefs, printer_id, saved, edits>>

ModelIndexes == 0..(Len(PrinterModelIds) - 1)
OptionIndexes == 0..(Len(OptionIds) - 1)

\* entities with every field of its type and every index within its catalog
ValidEntities ==
    {[Settings(InstalledId, PluginJson) EXCEPT
        !.thumbnails_enabled = PyBool(te),
        !.printer_model = PyInt(pm),
        !.corner_options = PyList(Ints(co)),
        !.statistics_enabled = PyBool(se),
        !.use_current_model = PyBool(ucm)] :
     te \in BOOLEAN, pm \in ModelIndexes, co \in [1..4 -> OptionIndexes],
     se \in BOOLEAN, ucm \in BOOLEAN}

InitRoundTrip ==
    /\ settings \in ValidEntities
    /\ meta = PyNone
    /\ prefs = InstalledId
    /\ printer_id = "elegoo_neptune_4"
    /\ popup = FALSE
    /\ selected_corner = -1
    /\ ret = PyNone
    /\ last = Call("init", 0, NoExc, FALSE)
    /\ saved = PyNone
    /\ edits = 0

NextRoundTrip ==
    \/ last.op = "init" /\ save
    \/ last.op = "save" /\ restart
    \/ last.op \in {"save", "restart"} /\ load

SpecRoundTrip == InitRoundTrip /\ [][NextRoundTrip]_vars

----------------------------------------------------------------------------
(* get_corner_option_ids on every valid entity *)

get_corner_option_ids ==
    \E u \in Uuid4(settings, prefs) :
        LET g == SettingsManager_get_settings(settings, meta, prefs, printer_id, u)
            r == Settings_get_corner_option_ids(g.settings)
        IN /\ settings' = g.settings
           /\ prefs' = g.prefs
           /\ ret' = IF g.exc = NoExc /\ r.exc = NoExc THEN PyList(r.val) ELSE PyNone
           /\ last' = Call("get_corner_option_ids", 0,
                           IF g.exc # NoExc THEN g.exc ELSE r.exc, g.settings # settings)
           /\ UNCHANGED <<meta, printer_id, popup, selected_corner, saved, edits>>

InitOptionIds ==
    /\ settings \in {s \in ValidEntities :
                        /\ s.printer_model = PyInt(2)
                        /\ s.statistics_enabled = PyBool(TRUE)
                        /\ s.use_current_model = PyBool(FALSE)}
    /\ meta = PyNone
    /\ prefs = InstalledId
    /\ printer_id = "elegoo_neptune_4"
    /\ popup = FALSE
    /\ selected_corner = -1
    /\ ret = PyNone
    /\ last = Call("init", 0, NoExc, FALSE)
    /\ saved = PyNone
    /\ edits = 0

NextOptionIds ==
    \/ get_corner_option_ids
    \/ \E enabled \in BOOLEAN : set_thumbnails_enabled(enabled)

SpecOptionIds == InitOptionIds /\ [][NextOptionIds]_vars

----------------------------------------------------------------------------
(* load() with nothing stored, for every printer definition *)

\* the identifiers load() compares printer_id with
KnownPrinterIds == {"elegoo_neptune_2", "elegoo_neptune_2s", "elegoo_neptune_2_s",
                    "elegoo_neptune_3pro", "elegoo_neptune_3_pro",
                    "elegoo_neptune_3plus", "elegoo_neptune_3_plus",
                    "elegoo_neptune_3max", "elegoo_neptune_3_max"}
\* identifiers it does not know: two the comments of load() name, and the
\* empty one of a definition that has no id
UnknownPrinterIds == {"elegoo_neptune_1", "elegoo_neptune_4", ""}

InitFirstRun ==
    /\ settings = PyNone
    /\ meta = PyNone
    /\ prefs = InstalledId
    /\ printer_id \in KnownPrinterIds \cup UnknownPrinterIds
    /\ popup = FALSE
    /\ selected_corner = -1
    /\ ret = PyNone
    /\ last = Call("init", 0, NoExc, FALSE)
    /\ saved = PyNone
    /\ edits = 0

NextFirstRun ==
    \/ load
    \/ \E enabled \in BOOLEAN : set_thumbnails_enabled(enabled)
    \/ \E model \in ModelArgs : select_printer_model(model)
    \/ \E corner \in CornerArgs, option \in OptionArgs : set_corner_option(corner, option)
    \/ \E enabled \in BOOLEAN : set_statistics_enabled(enabled)
    \/ \E enabled \in BOOLEAN : set_use_current_model(enabled)

SpecFirstRun == InitFirstRun /\ [][NextFirstRun]_vars

----------------------------------------------------------------------------
(* the popup: GUIManager.show_settings_popup, update_gui, the corner cursor
   and the slots of the klipper and KP3S check boxes *)

\* s.name: an attribute the object does not have raises AttributeError
GetAttr(s, name) ==
    IF name \in DOMAIN s THEN [exc |-> NoExc, val |-> s[name]] ELSE [exc |-> "AttributeError"]

\* the attributes of the entity update_gui reads, in its order
UpdateGuiReads == <<"thumbnails_enabled", "KP3S_thumbnails_enabled",
                    "klipper_thumbnails_enabled", "printer_model", "corner_options",
                    "statistics_enabled", "use_current_model">>

\* the reads from the k-th on: the first exception, or none
RECURSIVE ReadAttrs(_, _, _)
ReadAttrs(s, names, k) ==
    IF k > Len(names) THEN NoExc
    ELSE LET r == GetAttr(s, names[k]) IN
         IF r.exc # NoExc THEN r.exc
         ELSE IF names[k] = "corner_options" /\ r.val.type # "list" THEN "TypeError"
         ELSE ReadAttrs(s, names, k + 1)

\* SettingsTranslator.update_gui with _popup set or not (pop): every read goes
\* through get_settings(); render_thumbnail is its last statement.  The
\* donation link it sets once reads nothing of the entity and is left out.
SettingsTranslator_update_gui(pop, s, m, p, pid, u) ==
    IF ~pop THEN [settings |-> s, prefs |-> p, exc |-> NoExc, fired |-> 0]
    ELSE LET g == SettingsManager_get_settings(s, m, p, pid, u) IN
         IF g.exc # NoExc
         THEN [settings |-> g.settings, prefs |-> g.prefs, exc |-> g.exc, fired |-> 0]
         ELSE LET e == ReadAttrs(g.settings, UpdateGuiReads, 1) IN
              [settings |-> g.settings, prefs |-> g.prefs, exc |-> e,
               fired |-> IF e = NoExc THEN 1 ELSE 0]

\* GUIManager.show_settings_popup: init_gui if there is no popup yet
\* (createQmlComponent gives a window or None), then update_gui and show
show_settings_popup ==
    \E created \in (IF popup THEN {TRUE} ELSE BOOLEAN), u \in Uuid4(settings, prefs) :
        LET r == SettingsTranslator_update_gui(created, settings, meta, prefs, printer_id, u) IN
        /\ popup' = created
        /\ settings' = r.settings
        /\ prefs' = r.prefs
        /\ last' = Notify(Call("show_settings_popup", r.fired, r.exc, r.settings # settings),
                          settings, r.settings)
        /\ UNCHANGED <<meta, printer_id, selected_corner, ret, saved, edits>>

\* the slots of the klipper and KP3S check boxes: compare attribute f with the
\* argument, assign it, re-render on a change
SetAttr(op, f, value) ==
    \E u \in Uuid4(settings, prefs) :
        LET g == SettingsManager_get_settings(settings, meta, prefs, printer_id, u)
            old == GetAttr(g.settings, f)
        IN
        /\ prefs' = g.prefs
        /\ IF g.exc # NoExc
           THEN /\ settings' = g.settings
                /\ last' = Call(op, 0, g.exc, g.settings # settings)
           ELSE IF old.exc # NoExc
           THEN /\ settings' = g.settings
                /\ last' = Call(op, 0, old.exc, g.settings # settings)
           ELSE LET updated == Updated(old.val, value)
                    s1 == [g.settings EXCEPT ![f] = value]
                IN /\ settings' = s1
                   /\ last' = Notify(Call(op, Renders(updated), NoExc, s1 # settings),
                                     g.settings, s1)

set_klipper_thumbnails_enabled(enabled) ==
    /\ SetAttr("set_klipper_thumbnails_enabled", "klipper_thumbnails_enabled", PyBool(enabled))
    /\ UNCHANGED <<meta, printer_id, popup, selected_corner, ret, saved, edits>>

set_KP3S_thumbnails_enabled(enabled) ==
    /\ SetAttr("set_KP3S_thumbnails_enabled", "KP3S_thumbnails_enabled", PyBool(enabled))
    /\ UNCHANGED <<meta, printer_id, popup, selected_corner, ret, saved, edits>>

\* arguments of select_corner: the first and the third corner, and one past
\* the last
SelectArgs == {0, 2, 4}

select_corner(corner) ==
    /\ selected_corner' = corner
    /\ last' = Call("select_corner", 0, NoExc, FALSE)
    /\ UNCHANGED <<settings, meta, prefs, printer_id, popup, ret, saved, edits>>

\* the property read with the cursor on the last corner whatever was
\* selected: what SelectedCornerCursor must notice
selected_corner_option_last ==
    \E u \in Uuid4(settings, prefs) :
        LET g == SettingsManager_get_settings(settings, meta, prefs, printer_id, u)
            r == CornerRead(g.settings, -1)
        IN /\ settings' = g.settings
           /\ prefs' = g.prefs
           /\ ret' = IF g.exc = NoExc /\ r.exc = NoExc THEN r.val ELSE PyNone
           /\ last' = Call("selected_corner_option", 0,
                           IF g.exc # NoExc THEN g.exc ELSE r.exc, g.settings # settings)
           /\ UNCHANGED <<meta, printer_id, popup, selected_corner, saved, edits>>

\* the property selected_corner_option: corner_options[self._selected_corner]
selected_corner_option ==
    \E u \in Uuid4(settings, prefs) :
        LET g == SettingsManager_get_settings(settings, meta, prefs, printer_id, u)
            r == CornerRead(g.settings, selected_corner)
        IN /\ settings' = g.settings
           /\ prefs' = g.prefs
           /\ ret' = IF g.exc = NoExc /\ r.exc = NoExc THEN r.val ELSE PyNone
           /\ last' = Call("selected_corner_option", 0,
                           IF g.exc # NoExc THEN g.exc ELSE r.exc, g.settings # settings)
           /\ UNCHANGED <<meta, printer_id, popup, selected_corner, saved, edits>>

\* what the popup does: it is opened and closed, a corner is selected, read
\* and set to an option of its list, the check boxes are clicked, the settings
\* are saved or loaded
NextView ==
    \/ show_settings_popup
    \/ \E visible \in BOOLEAN : visibility_changed(visible)
    \/ \E corner \in SelectArgs : select_corner(corner)
    \/ selected_corner_option
    \/ \E corner \in CornerArgs \cap (0..3), option \in OptionArgs \cap OptionIndexes :
          set_corner_option(corner, option)
    \/ \E enabled \in BOOLEAN : set_klipper_thumbnails_enabled(enabled)
    \/ \E enabled \in BOOLEAN : set_KP3S_thumbnails_enabled(enabled)
    \/ SettingsTranslator_save
    \/ load

\* the popup is opened on a first run, or on a run after one that saved
InitView ==
    /\ settings = PyNone
    /\ meta \in {PyNone, EarlierBlob}
    /\ prefs = InstalledId
    /\ printer_id = "elegoo_neptune_2s"
    /\ popup = FALSE
    /\ selected_corner = -1
    /\ ret = PyNone
    /\ last = Call("init", 0, NoExc, FALSE)
    /\ saved = PyNone
    /\ edits = 0

SpecView == InitView /\ [][NextView]_vars

----------------------------------------------------------------------------
(* C1 *)

\* C1: a load() after a save() of this process, with any mutation slots called
\* in between and no other save, does not raise and leaves the five persisted
\* fields of the entity as they were at that save.
DiscardRestoresSaved ==
    (last.op = "load" /\ saved # PyNone) =>
        (last.exc = NoExc /\ Persisted(settings) = saved)

\* a load() after a save() that replaced edited fields
DiscardWitness == last.op = "load" /\ saved # PyNone /\ last.changed /\ edits > 0

(* C2 *)

ValidPersisted(f) ==
    /\ f.thumbnails_enabled.type = "bool"
    /\ f.statistics_enabled.type = "bool"
    /\ f.use_current_model.type = "bool"
    /\ f.printer_model.type = "int" /\ f.printer_model.n \in ModelIndexes
    /\ f.corner_options.type = "list" /\ Len(f.corner_options.items) = 4
    /\ \A i \in 1..4 : /\ f.corner_options.items[i].type = "int"
                       /\ f.corner_options.items[i].n \in OptionIndexes

\* C2: from every valid entity, save() and then load(), in the same process
\* or in one started afresh, does not raise and yields the five persisted
\* fields that were saved.
SaveLoadRoundTrip ==
    (last.op = "load") =>
        (ValidPersisted(saved) /\ last.exc = NoExc /\ Persisted(settings) = saved)

\* a load() in a fresh process that brought back saved values other than the
\* constructor's
RoundTripWitness ==
    /\ last.op = "load" /\ last.changed
    /\ Persisted(settings) = saved
    /\ settings.corner_options = PyList(Ints(<<5, 4, 0, 2>>))
    /\ settings.thumbnails_enabled = PyBool(FALSE)
    /\ settings.use_current_model = PyBool(TRUE)

(* C3 *)

NotifyingSlots == {"set_thumbnails_enabled", "select_printer_model",
                   "set_corner_option", "set_use_current_model"}

\* the field a notifying slot writes
SlotField(op, s) ==
    CASE op = "set_thumbnails_enabled" -> s.thumbnails_enabled
      [] op = "select_printer_model" -> s.printer_model
      [] op = "set_corner_option" -> s.corner_options
      [] op = "set_use_current_model" -> s.use_current_model

\* re-renders owed by a slot called with value new on a field holding cur
Owed(cur, new) == IF cur = new THEN 0 ELSE 1

\* C3: on an existing entity, each of set_thumbnails_enabled,
\* select_printer_model, set_corner_option (corner in [0,4)) and
\* set_use_current_model fires the re-render zero times when called with the
\* value the field holds and exactly once when called with another; and a
\* notifying slot that returns has fired once iff it left its field changed.
ChangeNotificationExact ==
    [][/\ \A enabled \in BOOLEAN :
             (Truthy(settings) /\ set_thumbnails_enabled(enabled)) =>
                 last'.fired = Owed(settings.thumbnails_enabled, PyBool(enabled))
       /\ \A model \in ModelArgs :
             (Truthy(settings) /\ select_printer_model(model)) =>
                 last'.fired = Owed(settings.printer_model, PyInt(model))
       /\ \A corner \in CornerArgs \cap (0..3), option \in OptionArgs :
             (Truthy(settings) /\ set_corner_option(corner, option)) =>
                 last'.fired = Owed(settings.corner_options.items[corner + 1], PyInt(option))
       /\ \A enabled \in BOOLEAN :
             (Truthy(settings) /\ set_use_current_model(enabled)) =>
                 last'.fired = Owed(settings.use_current_model, PyBool(enabled))
       /\ (Truthy(settings) /\ last'.op \in NotifyingSlots /\ last'.exc = NoExc) =>
             last'.fired = Owed(SlotField(last'.op, settings), SlotField(last'.op, settings'))]_vars

\* a corner option written again with the value it holds: no re-render
SameValueWitness ==
    /\ last.op = "set_corner_option" /\ last.exc = NoExc
    /\ ~last.changed /\ last.fired = 0 /\ edits > 1

(* C4 *)

\* C4: set_corner_option(corner, option) with corner in [0,4) and option
\* outside [0,6) is rejected and leaves corner_options unchanged.
OptionOutOfRangeRejected ==
    [][\A corner \in CornerArgs \cap (0..3), option \in OptionArgs \ OptionIndexes :
          (Truthy(settings) /\ set_corner_option(corner, option)) =>
              (last'.exc # NoExc /\ settings'.corner_options = settings.corner_options)]_vars

(* C5 *)

InBounds(s) ==
    /\ s.printer_model.type = "int" /\ s.printer_model.n \in ModelIndexes
    /\ s.corner_options.type = "list"
    /\ \A i \in 1..Len(s.corner_options.items) :
          /\ s.corner_options.items[i].type = "int"
          /\ s.corner_options.items[i].n \in OptionIndexes

\* C5: printer_model is in [0,5) and every element of corner_options is in
\* [0,6) in every reachable state; stated here for the runs that start with no
\* stored blob and have not saved, where only the defaults and the mutation
\* slots have written the entity.
IndexBoundsInvariant == (Truthy(settings) /\ meta = PyNone) => InBounds(settings)

(* C6 *)

\* C6: with a malformed blob in the store, load() and get_settings() do not
\* raise and leave the entity as for an absent blob: the defaults and the
\* detected printer.
MalformedBlobRecovered ==
    (meta \in MalformedBlobs /\ last.op \in {"load", "get_settings"}) =>
        /\ last.exc = NoExc
        /\ Persisted(settings) = Persisted(DefaultSettings(settings, printer_id))

(* C7 *)

Unwrap(list) == [i \in 1..Len(list.items) |-> list.items[i].n]
\* the first slot of co holding option index o
FirstSlot(co, o) == CHOOSE i \in 1..Len(co) : co[i] = o /\ \A j \in 1..(i - 1) : co[j] # o
IndexOfId(id) == CHOOSE o \in OptionIndexes : OptionIds[o + 1] = id

\* ids is the Effective Option Set of corner options co (indexes in [0,6)) and
\* overlay flag te: the overlay identifier first iff te, then exactly the
\* identifiers of the non-zero slots, each once, ordered by first occurrence
IsEffectiveOptionSet(ids, co, te) ==
    LET body == IF te /\ ids # <<>> THEN Tail(ids) ELSE ids IN
    /\ te => (ids # <<>> /\ ids[1] = "includeThumbnail")
    /\ \A i \in 1..Len(body) : body[i] \in {OptionIds[o + 1] : o \in OptionIndexes \ {0}}
    /\ {body[i] : i \in 1..Len(body)} = {OptionIds[co[k] + 1] : k \in {j \in 1..Len(co) : co[j] # 0}}
    /\ \A i, j \in 1..Len(body) : i # j => body[i] # body[j]
    /\ \A i, j \in 1..Len(body) :
          i < j => FirstSlot(co, IndexOfId(body[i])) < FirstSlot(co, IndexOfId(body[j]))

\* C7: for every corner_options in [0,6)^4 and every thumbnails_enabled, each
\* call of get_corner_option_ids returns the Effective Option Set of the
\* entity as it is at that call.
EffectiveOptionSetComputed ==
    (last.op = "get_corner_option_ids") =>
        /\ last.exc = NoExc
        /\ IsEffectiveOptionSet(ret.items, Unwrap(settings.corner_options),
                                settings.thumbnails_enabled.b)

\* [2,2,2,2] with the overlay enabled by a slot call: the overlay identifier
\* and one entry for index 2
DuplicatesWitness ==
    /\ last.op = "get_corner_option_ids" /\ edits > 0
    /\ settings.corner_options = PyList(Ints(<<2, 2, 2, 2>>))
    /\ ret = PyList(<<"includeThumbnail", "includeFilamentGramsEstimate">>)

(* C8 *)

\* C8 as stated: after load() with no stored blob corner_options is [0,0,3,1]
\* and the Effective Option Set is overlay, model height, time estimate.
OutOfBoxModelHeight ==
    (last.op = "load" /\ meta = PyNone) =>
        /\ settings.corner_options = PyList(Ints(<<0, 0, 3, 1>>))
        /\ Settings_get_corner_option_ids(settings) =
              [exc |-> NoExc,
               val |-> <<"includeThumbnail", "includeModelHeight", "includeTimeEstimate">>]

\* C8 amended: after load() with no stored blob corner_options is [0,0,3,1]
\* and the Effective Option Set is overlay, layer height, time estimate:
\* catalog index 3 is the layer height, index 1 the time estimate.
OutOfBoxLayout ==
    (last.op = "load" /\ meta = PyNone) =>
        /\ settings.corner_options = PyList(Ints(<<0, 0, 3, 1>>))
        /\ Settings_get_corner_option_ids(settings) =
              [exc |-> NoExc,
               val |-> <<"includeThumbnail", "includeLayerHeight", "includeTimeEstimate">>]
        /\ OptionIds[3 + 1] = "includeLayerHeight" /\ OptionIds[1 + 1] = "includeTimeEstimate"

\* a load() with no stored blob that put the defaults over edited fields
OutOfBoxWitness == last.op = "load" /\ meta = PyNone /\ last.changed /\ edits > 0

(* C9 *)

\* C9: once the entity exists its statistics_id never changes; an id held by
\* the preferences is never overwritten; and the entity's id is the one the
\* preferences hold, generated when they held none.
StableInstallationId ==
    [][/\ Truthy(settings) => (Truthy(settings') /\ settings'.statistics_id = settings.statistics_id)
       /\ Truthy(prefs) => prefs' = prefs
       /\ Truthy(settings') => (Truthy(prefs') /\ settings'.statistics_id = prefs')
       /\ (~Truthy(prefs) /\ Truthy(prefs')) => prefs'.s \in FreshIds]_vars

\* a repeated load() on an entity whose id was generated in this process
StableIdWitness ==
    /\ last.op = "load" /\ ~last.changed
    /\ prefs.type = "str" /\ prefs.s \in FreshIds
    /\ settings.statistics_id = prefs

(* C10 *)

\* C10: set_corner_option(corner, option) with corner outside [0,4) changes
\* no field of the entity and fires no re-render.
CornerOutOfRangeRejected ==
    [][\A corner \in CornerArgs \ (0..3), option \in OptionArgs :
          (Truthy(settings) /\ set_corner_option(corner, option)) =>
              (settings' = settings /\ last'.fired = 0)]_vars

(* C11 *)

\* the fixed lookup table: device identifier, catalog index
LookupTable ==
    {<<"elegoo_neptune_2", 0>>,
     <<"elegoo_neptune_2s", 1>>, <<"elegoo_neptune_2_s", 1>>,
     <<"elegoo_neptune_3pro", 2>>, <<"elegoo_neptune_3_pro", 2>>,
     <<"elegoo_neptune_3plus", 3>>, <<"elegoo_neptune_3_plus", 3>>,
     <<"elegoo_neptune_3max", 4>>, <<"elegoo_neptune_3_max", 4>>}

MappedIndex(pid) ==
    IF \E e \in LookupTable : e[1] = pid
    THEN (CHOOSE e \in LookupTable : e[1] = pid)[2]
    ELSE 2

\* C11: every load() with no stored blob, the first one and every one over
\* edited fields, returns and leaves thumbnails_enabled true, corner_options
\* [0,0,3,1], statistics_enabled true, use_current_model false, and
\* printer_model the catalog index (in 0..4) the lookup table gives for the
\* detected identifier, or 2 for an identifier that is not in the table.
FirstRunDefaults ==
    (last.op = "load" /\ meta = PyNone) =>
        /\ last.exc = NoExc
        /\ MappedIndex(printer_id) \in ModelIndexes
        /\ Persisted(settings) =
              [thumbnails_enabled |-> PyBool(TRUE),
               printer_model |-> PyInt(MappedIndex(printer_id)),
               corner_options |-> PyList(<<PyInt(0), PyInt(0), PyInt(3), PyInt(1)>>),
               statistics_enabled |-> PyBool(TRUE),
               use_current_model |-> PyBool(FALSE)]

\* a load() that put the detected model 3 back over edited fields
FirstRunWitness ==
    /\ last.op = "load" /\ last.changed /\ edits > 1
    /\ printer_id = "elegoo_neptune_3plus"
    /\ settings.printer_model = PyInt(3)

(* C12 *)

BlobKeys(d) == [i \in 1..Len(d.items) |-> d.items[i].key]

\* a store from which load() returns: nothing, or an object with the five keys
LoadableStore == meta \in {PyNone, EarlierBlob, WrongTypeBlob} \/ saved # PyNone

\* C12: save() with no entity first does what load() does; a save() that
\* returns has written the text of an object with exactly the keys
\* thumbnails_enabled, printer_model, corner_options, statistics_enabled,
\* use_current_model, in that order, each with the entity's current value, and
\* with no statistics_id and no plugin descriptor; save() leaves an existing
\* entity as it is, returns whenever the entity exists or the implicit load()
\* returns, and writes nothing when that load() raises.
SaveContract ==
    [][save =>
        /\ ~Truthy(settings) =>
               \E u \in Uuid4(settings, prefs) :
                   LET l == SettingsManager_load(settings, meta, prefs, printer_id, u) IN
                   settings' = l.settings /\ prefs' = l.prefs /\ last'.exc = l.exc
        /\ Truthy(settings) => settings' = settings
        /\ (Truthy(settings) \/ LoadableStore) => last'.exc = NoExc
        /\ last'.exc # NoExc => meta' = meta
        /\ last'.exc = NoExc =>
               LET d == json_loads(meta') IN
               /\ d.exc = NoExc /\ d.val.type = "dict"
               /\ BlobKeys(d.val) = <<"thumbnails_enabled", "printer_model", "corner_options",
                                      "statistics_enabled", "use_current_model">>
               /\ DictGet(d.val, "thumbnails_enabled") = settings'.thumbnails_enabled
               /\ DictGet(d.val, "printer_model") = settings'.printer_model
               /\ DictGet(d.val, "corner_options") = settings'.corner_options
               /\ DictGet(d.val, "statistics_enabled") = settings'.statistics_enabled
               /\ DictGet(d.val, "use_current_model") = settings'.use_current_model
               /\ ~HasKey(d.val, "statistics_id") /\ ~HasKey(d.val, "plugin_json")]_vars

\* a save() as the first call of a first run: it created the entity and wrote
\* the defaults
SaveFirstWitness ==
    /\ last.op = "save" /\ last.changed /\ last.exc = NoExc /\ edits = 0
    /\ printer_id = "elegoo_neptune_3_max"
    /\ json_loads(meta).val = Settings_to_json(settings)
    /\ settings.printer_model = PyInt(4)

(* C13 *)

\* the store is absent or holds a blob that save() wrote, in an earlier run or
\* in this one
StoreAbsentOrSaved == meta \in {PyNone, EarlierBlob} \/ saved # PyNone

\* C13: with the store absent or holding a blob written by save(), the
\* entity's corner_options is a list of length 4 after any sequence of
\* get_settings, load, save and mutation slots, whatever their arguments.
FourCornerSlots ==
    (Truthy(settings) /\ StoreAbsentOrSaved) =>
        (settings.corner_options.type = "list" /\ Len(settings.corner_options.items) = 4)

\* a corner written through a negative index after a save()
FourSlotsWitness ==
    /\ last.op = "set_corner_option" /\ last.exc = NoExc /\ last.changed
    /\ saved # PyNone /\ edits > 1
    /\ settings.corner_options.items[4] = PyInt(6)

(* C14 *)

\* the persisted fields of EarlierBlob
EarlierFields ==
    [thumbnails_enabled |-> PyBool(FALSE),
     printer_model |-> PyInt(4),
     corner_options |-> PyList(<<PyInt(1), PyInt(2), PyInt(2), PyInt(5)>>),
     statistics_enabled |-> PyBool(FALSE),
     use_current_model |-> PyBool(TRUE)]

DefaultFields ==
    [thumbnails_enabled |-> PyBool(TRUE),
     printer_model |-> PyInt(MappedIndex(printer_id)),
     corner_options |-> PyList(<<PyInt(0), PyInt(0), PyInt(3), PyInt(1)>>),
     statistics_enabled |-> PyBool(TRUE),
     use_current_model |-> PyBool(FALSE)]

\* what a close reverts to: the fields at the last save() of this process,
\* else those of the blob an earlier run saved, else the defaults
Reverted ==
    IF saved # PyNone THEN saved
    ELSE IF meta = PyNone THEN DefaultFields ELSE EarlierFields

\* C14: with the store absent or holding a saved blob, visibility_changed(false)
\* returns and leaves the persisted fields as last saved (by either save, in
\* this run or an earlier one) or at the defaults, and the store as it was;
\* visibility_changed(true) changes neither the entity nor the store; the save
\* slot does what SettingsManager.save() does.  So an edit made before a save
\* is in the entity after a later close, and one made after the last save is
\* not.
EditSessionProtocol ==
    [][/\ (StoreAbsentOrSaved /\ visibility_changed(FALSE)) =>
             (/\ last'.exc = NoExc /\ Truthy(settings')
              /\ Persisted(settings') = Reverted /\ meta' = meta)
       /\ visibility_changed(TRUE) =>
             (settings' = settings /\ meta' = meta /\ prefs' = prefs)
       /\ SettingsTranslator_save =>
             \E u \in Uuid4(settings, prefs) :
                 LET r == SettingsManager_save(settings, meta, prefs, printer_id, u) IN
                 /\ settings' = r.settings /\ meta' = r.meta /\ prefs' = r.prefs
                 /\ last'.exc = r.exc
                 /\ r.exc = NoExc => json_loads(meta').val = Settings_to_json(settings')]_vars

\* a first run: thumbnails disabled and saved, a second edit, and a close
\* that took the second edit back and kept the first
SessionWitness ==
    /\ last.op = "visibility_changed" /\ last.changed /\ edits = 2
    /\ printer_id = "elegoo_neptune_4"
    /\ saved # PyNone /\ Persisted(settings) = saved
    /\ settings.thumbnails_enabled = PyBool(FALSE)
    /\ settings.corner_options = PyList(<<PyInt(0), PyInt(0), PyInt(3), PyInt(1)>>)

(* C15 *)

\* C15: set_statistics_enabled never fires the re-render, whether or not the
\* value differs from the one held; whenever it returns, statistics_enabled is
\* its argument; and it returns whenever the entity exists or load() returns.
StatisticsNeverNotifies ==
    [][\A enabled \in BOOLEAN :
          set_statistics_enabled(enabled) =>
              /\ last'.fired = 0 /\ last'.seen = PyNone
              /\ last'.exc = NoExc => settings'.statistics_enabled = PyBool(enabled)
              /\ (Truthy(settings) \/ LoadableStore) => last'.exc = NoExc]_vars

\* statistics switched off on an existing entity: written, no re-render
StatisticsWitness ==
    /\ last.op = "set_statistics_enabled" /\ last.exc = NoExc
    /\ last.changed /\ last.fired = 0 /\ edits > 1
    /\ settings.statistics_enabled = PyBool(FALSE)

(* C16 *)

\* entity s with value v in corner slot corner (in [0,4))
WithCorner(s, corner, v) == [s EXCEPT !.corner_options.items[corner + 1] = v]

\* C16: whenever a mutation slot called on an existing entity fires the
\* re-render, the value the field held before the call differs from the
\* argument, and the entity render_thumbnail finds holds the argument in that
\* field: its Effective Option Set and printer model id are those of the
\* entity with the argument written.
WriteBeforeNotify ==
    [][/\ \A enabled \in BOOLEAN :
             (Truthy(settings) /\ set_thumbnails_enabled(enabled) /\ last'.fired > 0) =>
                 /\ settings.thumbnails_enabled # PyBool(enabled)
                 /\ last'.seen.thumbnails_enabled = PyBool(enabled)
                 /\ Settings_get_corner_option_ids(last'.seen) =
                       Settings_get_corner_option_ids(
                           [settings EXCEPT !.thumbnails_enabled = PyBool(enabled)])
       /\ \A model \in ModelArgs :
             (Truthy(settings) /\ select_printer_model(model) /\ last'.fired > 0) =>
                 /\ settings.printer_model # PyInt(model)
                 /\ last'.seen.printer_model = PyInt(model)
                 /\ Settings_get_printer_model_id(last'.seen) =
                       StrListIndex(PrinterModelIds, PyInt(model))
       /\ \A corner \in CornerArgs \cap (0..3), option \in OptionArgs :
             (Truthy(settings) /\ set_corner_option(corner, option) /\ last'.fired > 0) =>
                 /\ settings.corner_options.items[corner + 1] # PyInt(option)
                 /\ last'.seen.corner_options.items[corner + 1] = PyInt(option)
                 /\ Settings_get_corner_option_ids(last'.seen) =
                       Settings_get_corner_option_ids(WithCorner(settings, corner, PyInt(option)))
       /\ \A enabled \in BOOLEAN :
             (Truthy(settings) /\ set_use_current_model(enabled) /\ last'.fired > 0) =>
                 /\ settings.use_current_model # PyBool(enabled)
                 /\ last'.seen.use_current_model = PyBool(enabled)
       /\ last'.fired > 0 => last'.seen = Persisted(settings')
       /\ last'.fired = 0 => last'.seen = PyNone]_vars

\* the first corner set to the filament grams: the preview is generated with
\* that option in the Effective Option Set
NotifyWitness ==
    /\ last.op = "set_corner_option" /\ last.fired = 1 /\ edits > 1
    /\ last.seen # PyNone
    /\ last.seen.corner_options = PyList(<<PyInt(2), PyInt(0), PyInt(3), PyInt(1)>>)
    /\ Settings_get_corner_option_ids(last.seen) =
          [exc |-> NoExc,
           val |-> <<"includeThumbnail", "includeFilamentGramsEstimate",
                     "includeLayerHeight", "includeTimeEstimate">>]

(* C19 *)

\* C19: the stored blob changes only in a step of save() or of the save
\* slot: get_settings, load, every mutation slot and visibility_changed leave
\* it as it was, also a load() that applies the defaults on an absent store
\* and a set_corner_option that follows a load().
StoreChangesOnlyOnSave ==
    [][/\ (meta' # meta) => (save \/ SettingsTranslator_save)
       /\ (get_settings \/ load \/ \E visible \in BOOLEAN : visibility_changed(visible)) =>
             meta' = meta
       /\ (last'.op \in {"set_thumbnails_enabled", "select_printer_model", "set_corner_option",
                          "set_statistics_enabled", "set_use_current_model"}) => meta' = meta]_vars

\* a blob saved earlier, loaded, and a corner of the loaded list written in
\* place: the store still holds the earlier blob
StoreUntouchedWitness ==
    /\ last.op = "set_corner_option" /\ last.changed /\ last.exc = NoExc /\ edits > 1
    /\ meta = EarlierBlob
    /\ settings.corner_options # DictGet(json_loads(meta).val, "corner_options")

(* C20 *)

EntityFields == {"statistics_id", "plugin_json", "thumbnails_enabled", "printer_model",
                 "corner_options", "statistics_enabled", "use_current_model"}

\* the step left every field but f as get_settings() gave it to the slot
OnlyField(f) ==
    \E u \in Uuid4(settings, prefs) :
        LET g == SettingsManager_get_settings(settings, meta, prefs, printer_id, u).settings IN
        \A x \in EntityFields \ {f} : settings'[x] = g[x]

\* the step left every corner slot but the one at index corner as it was
OnlyCorner(corner) ==
    \E u \in Uuid4(settings, prefs) :
        LET g == SettingsManager_get_settings(settings, meta, prefs, printer_id, u).settings IN
        /\ settings'.corner_options.type = g.corner_options.type
        /\ Len(settings'.corner_options.items) = Len(g.corner_options.items)
        /\ \A i \in 1..Len(g.corner_options.items) :
              i # corner + 1 => settings'.corner_options.items[i] = g.corner_options.items[i]

\* C20: each mutation slot leaves every field of the entity but its own as
\* it found it, statistics_id and the plugin descriptor included; and
\* set_corner_option(corner, option) with corner in [0,4) leaves the other
\* three corner slots as they were.
MutationFrame ==
    [][/\ \A enabled \in BOOLEAN :
             set_thumbnails_enabled(enabled) => OnlyField("thumbnails_enabled")
       /\ \A model \in ModelArgs :
             select_printer_model(model) => OnlyField("printer_model")
       /\ \A enabled \in BOOLEAN :
             set_statistics_enabled(enabled) => OnlyField("statistics_enabled")
       /\ \A enabled \in BOOLEAN :
             set_use_current_model(enabled) => OnlyField("use_current_model")
       /\ \A corner \in CornerArgs \cap (0..3), option \in OptionArgs :
             set_corner_option(corner, option) =>
                 (OnlyField("corner_options") /\ OnlyCorner(corner))]_vars

\* the last corner written on an entity whose other fields were edited before
FrameWitness ==
    /\ last.op = "set_corner_option" /\ last.changed /\ last.exc = NoExc /\ edits > 1
    /\ settings.thumbnails_enabled = PyBool(FALSE)
    /\ settings.corner_options = PyList(<<PyInt(0), PyInt(0), PyInt(3), PyInt(2)>>)

(* C17 *)

\* C17: with the popup created and the store absent or holding a saved blob,
\* show_settings_popup's update_gui reads every field without an exception and
\* fires the re-render exactly once; the fields it reads, the KP3S and klipper
\* thumbnail flags among them, are fields of the entity.
UpdateGuiCompletes ==
    (last.op = "show_settings_popup" /\ popup /\ StoreAbsentOrSaved) =>
        /\ last.exc = NoExc
        /\ last.fired = 1
        /\ \A i \in 1..Len(UpdateGuiReads) : UpdateGuiReads[i] \in DOMAIN settings

(* C18 *)

\* C18: select_corner(c) sets the cursor to c and changes nothing else: no
\* entity field, not the store, no re-render; no other step changes the
\* cursor, so save(), load() and a close leave it; with the cursor in [0,4)
\* selected_corner_option returns corner_options[cursor] and leaves the
\* entity as it is; and a blob the save slot writes has the five keys only.
SelectedCornerCursor ==
    [][/\ \A corner \in SelectArgs :
             select_corner(corner) =>
                 /\ selected_corner' = corner
                 /\ settings' = settings /\ meta' = meta /\ prefs' = prefs /\ ret' = ret
                 /\ last'.fired = 0
       /\ (selected_corner' # selected_corner) => \E corner \in SelectArgs : select_corner(corner)
       /\ (selected_corner_option /\ selected_corner \in 0..3 /\ last'.exc = NoExc) =>
             ret' = settings'.corner_options.items[selected_corner + 1]
       /\ (selected_corner_option /\ selected_corner \in 0..3 /\ Truthy(settings)) =>
             (last'.exc = NoExc /\ settings' = settings /\ last'.fired = 0)
       /\ (SettingsTranslator_save /\ last'.exc = NoExc) =>
             BlobKeys(json_loads(meta').val) = PersistedKeys]_vars

\* the third corner selected, its option set and saved, the popup closed: the
\* property still reads the third corner
CursorWitness ==
    /\ last.op = "selected_corner_option" /\ last.exc = NoExc
    /\ selected_corner = 2 /\ saved # PyNone /\ edits > 0
    /\ ret = PyInt(3)
    /\ settings.corner_options = PyList(<<PyInt(2), PyInt(0), PyInt(3), PyInt(1)>>)

====
